---------------------------- MODULE Spec2Model ----------------------------
(***************************************************************************)
(* Model of Fresnel_equation_plot.py: the optics evaluator (alphaAndBeta,  *)
(* reflectionAndTransmissionCoefficient, reflectanceAndTransmittance), the *)
(* sampler that maps it over theta_range, and the straight-line plotting   *)
(* script that shows the figure and then saves it.                         *)
(*                                                                         *)
(* Numbers.  A float of the script is modelled by a triple <<n, d, k>>     *)
(* standing for the real number (n/d)*sqrt(k): d > 0, n and d coprime, k   *)
(* squarefree (k = 1 for a rational).  d = 0 marks the non-finite floats:  *)
(* <<1,0,1>> is +inf, <<-1,0,1>> is -inf and <<0,0,1>> is nan, with the    *)
(* IEEE rules numpy follows (x/0 = inf, 0/0 = nan, sqrt(-x) = nan; numpy   *)
(* warns and does not raise).  An expression is evaluated exactly wherever *)
(* its value is of this form; sin or cos of a general angle and the square *)
(* root of a general rational are rounded to a multiple of 1/Scale, and a  *)
(* value bound to a name is a float: an irrational is rounded (Float).     *)
(*                                                                         *)
(* Angles.  A value in radians is kept exactly, as [kind |-> "pi", v |-> q]*)
(* for q*pi or as [kind |-> "atan", v |-> b] for arctan(b).                *)
(***************************************************************************)
EXTENDS Integers, Sequences, FiniteSets, TLC

VARIABLES
    pc,                        \* the statement the script is about to run
    n_1, n_2,                  \* refractive indices (module globals)
    theta_range,               \* the sample grid, in radians
    reflection_coefficient, transmission_coefficient,
    reflectance, transmittance,
    theta_brewster,            \* Brewster's angle in degrees
    ticks_x, ticks_y,
    graph_1, graph_2,          \* the two panels of the figure
    loop_i,                    \* the index of "for i in range(2)"
    window,                    \* the on-screen window: "none", "open", "closed"
    files,                     \* names of the files written so far, in order
    log,                       \* statements completed so far, in order
    building,                  \* the list a running comprehension has built
    theta, out_ab, out_rt, out_RT     \* the evaluator called on one angle

vars == <<pc, n_1, n_2, theta_range, reflection_coefficient,
          transmission_coefficient, reflectance, transmittance,
          theta_brewster, ticks_x, ticks_y, graph_1, graph_2, loop_i,
          window, files, log, building, theta, out_ab, out_rt, out_RT>>

---------------------------------------------------------------------------
(* Precision of the rounded operations and bounds of the inputs.           *)

\* rounded results are multiples of 1/Scale
Scale == 1000
\* square roots are kept exact when the squarefree part is at most MaxSurd
MaxSurd == 100
\* refractive indices tried by the evaluator specification: i/2, i in 1..MaxIndex
MaxIndex == 4
\* angles tried by the evaluator specification: 0, 10, ..., 10*MaxAngle degrees
MaxAngle == 10

---------------------------------------------------------------------------
(* Integer helpers.                                                        *)

Abs(a) == IF a < 0 THEN -a ELSE a

Sgn(a) == IF a < 0 THEN -1 ELSE IF a > 0 THEN 1 ELSE 0

RECURSIVE GCD(_, _)
GCD(a, b) == IF b = 0 THEN a ELSE GCD(b, a % b)

RECURSIVE ISqrt(_)
\* floor(sqrt(n)) for 0 <= n < 2^31, two bits of the root per step
ISqrt(n) ==
    IF n < 16
    THEN IF n >= 9 THEN 3 ELSE IF n >= 4 THEN 2 ELSE IF n >= 1 THEN 1 ELSE 0
    ELSE LET r == 4 * ISqrt(n \div 16)
             fits(j) == r + j <= 46340 /\ (r + j) * (r + j) <= n
         IN  IF fits(3) THEN r + 3
             ELSE IF fits(2) THEN r + 2
             ELSE IF fits(1) THEN r + 1
             ELSE r

IsSquare(n) == ISqrt(n) * ISqrt(n) = n

RECURSIVE MulDivQR(_, _, _)
\* <<q, r>> with a*b = q*c + r and 0 <= r < c, for a, b >= 0 and
\* 0 < c < 2^26, without forming the product a*b (which may exceed 32 bits):
\* one hexadecimal digit of b per step
MulDivQR(a, b, c) ==
    IF b = 0 THEN <<0, 0>>
    ELSE LET h  == MulDivQR(a, b \div 16, c)
             r2 == 16 * h[2] + (b % 16) * (a % c)
             q2 == 16 * h[1] + (b % 16) * (a \div c)
         IN  <<q2 + (r2 \div c), r2 % c>>

\* floor(a*b/c) for a, b >= 0, c > 0
MulDiv(a, b, c) == MulDivQR(a, b, c)[1]

\* floor(a*b/c) for any sign of a
MulDivS(a, b, c) ==
    IF a >= 0 THEN MulDiv(a, b, c)
    ELSE LET qr == MulDivQR(-a, b, c)
         IN  IF qr[2] = 0 THEN -qr[1] ELSE -qr[1] - 1

---------------------------------------------------------------------------
(* Numbers <<n, d, k>> = (n/d)*sqrt(k).                                    *)

\* the triples that stand for numbers
Number == Int \X Int \X Int

NaN == <<0, 0, 1>>
PosInf == <<1, 0, 1>>
NegInf == <<-1, 0, 1>>
Zero == <<0, 1, 1>>

IsNaN(x) == x = NaN
IsInf(x) == x[2] = 0 /\ x[1] # 0
IsFinite(x) == x[2] # 0
IsZero(x) == x[2] # 0 /\ x[1] = 0
IsRational(x) == x[2] # 0 /\ x[3] = 1
SignOf(x) == Sgn(x[1])

\* the number (n/d)*sqrt(k) in normal form, d # 0, k squarefree
Norm(n, d, k) ==
    IF n = 0 THEN Zero
    ELSE LET g == GCD(Abs(n), Abs(d))
         IN  <<Sgn(d) * (n \div g), Abs(d) \div g, k>>

\* the rational n/d (n/0 is inf, -inf or nan)
Rat(n, d) == IF d = 0 THEN <<Sgn(n), 0, 1>> ELSE Norm(n, d, 1)

Num(n) == <<n, 1, 1>>

NegNum[x \in Number] == <<-x[1], x[2], x[3]>>

RECURSIVE Shorten(_, _)
\* m/s with the digits of m beyond the precision dropped (a float keeps a
\* fixed number of significant digits, not of decimals)
Shorten(m, s) ==
    IF Abs(m) <= Scale \/ s < 10 THEN Rat(m, s)
    ELSE Shorten(m \div 10, s \div 10)

\* a finite x rounded down to a rational of that precision
RoundNum[x \in Number] ==
    LET root == ISqrt(x[3] * Scale * Scale)           \* floor(sqrt(k)*Scale)
    IN  Shorten(MulDivS(x[1], root, x[2]), Scale)

MulNum[x \in Number, y \in Number] ==
    IF IsNaN(x) \/ IsNaN(y) THEN NaN
    ELSE IF ~IsFinite(x) \/ ~IsFinite(y)
         THEN <<SignOf(x) * SignOf(y), 0, 1>>          \* inf*0 = nan
    ELSE IF IsZero(x) \/ IsZero(y) THEN Zero
    ELSE LET g  == GCD(x[3], y[3])                     \* sqrt(k1*k2) = g*sqrt(k)
             k  == (x[3] \div g) * (y[3] \div g)
             g1 == GCD(Abs(x[1]), y[2])
             g2 == GCD(Abs(y[1]), x[2])
             d0 == (x[2] \div g2) * (y[2] \div g1)
             g3 == GCD(g, d0)
         IN  Norm((x[1] \div g1) * (y[1] \div g2) * (g \div g3), d0 \div g3, k)

\* 1/x for x finite and non-zero: d/(n*sqrt(k)) = (d/(n*k))*sqrt(k)
InvNum[x \in Number] ==
    LET g == GCD(x[2], x[3])
    IN  Norm(Sgn(x[1]) * (x[2] \div g), Abs(x[1]) * (x[3] \div g), x[3])

DivNum[x \in Number, y \in Number] ==
    IF IsNaN(x) \/ IsNaN(y) THEN NaN
    ELSE IF IsZero(y)
         THEN <<SignOf(x), 0, 1>>                      \* x/0 = +-inf, 0/0 = nan
    ELSE IF ~IsFinite(y)
         THEN IF IsFinite(x) THEN Zero ELSE NaN
    ELSE IF ~IsFinite(x) THEN <<SignOf(x) * SignOf(y), 0, 1>>
    ELSE MulNum[x, InvNum[y]]

AddRat(x, y) ==
    LET g == GCD(x[2], y[2])
        l == (x[2] \div g) * y[2]
    IN  <<x[1] * (l \div x[2]) + y[1] * (l \div y[2]), l>>

AddNum[x \in Number, y \in Number] ==
    IF IsNaN(x) \/ IsNaN(y) THEN NaN
    ELSE IF ~IsFinite(x)
         THEN IF ~IsFinite(y) /\ y # x THEN NaN ELSE x  \* inf - inf = nan
    ELSE IF ~IsFinite(y) THEN y
    ELSE IF IsZero(x) THEN y
    ELSE IF IsZero(y) THEN x
    ELSE IF x[3] = y[3]
         THEN LET s == AddRat(x, y) IN Norm(s[1], s[2], x[3])
    ELSE LET s == AddRat(RoundNum[x], RoundNum[y]) IN Norm(s[1], s[2], 1)

SubNum[x \in Number, y \in Number] == AddNum[x, NegNum[y]]

\* the value a name holds after an assignment: a float, so an irrational
\* result is rounded; rationals and the non-finite values are kept
Float[x \in Number] == IF IsFinite(x) /\ x[3] # 1 THEN RoundNum[x] ELSE x

SqNum[x \in Number] == MulNum[x, x]

\* the squarefree part of n when it is at most MaxSurd, else 0
SurdPart(n) ==
    LET ks == {k \in 1..MaxSurd : n % k = 0 /\ IsSquare(n \div k)}
    IN  IF ks = {} THEN 0 ELSE CHOOSE k \in ks : \A j \in ks : k <= j

\* x < y for finite rationals
LessNum(x, y) == x[1] * y[2] < y[1] * x[2]

LeqNum(x, y) == x = y \/ LessNum(x, y)


\* floor(sqrt(n/d) * Scale) / Scale for a rational n/d > 0
SqrtRounded(n, d) ==
    LET whole == n \div d
        frac  == MulDiv(n % d, Scale * Scale, d)
    IN  Rat(ISqrt(whole * Scale * Scale + frac), Scale)

\* sqrt(y) for a rational y > 0 whose numerator and denominator have the
\* squarefree parts kn and kd (0 when above MaxSurd)
SqrtParts[y \in Number, kn \in Int, kd \in Int] ==
    IF kn # 0 /\ kd # 0 /\ kn * kd <= MaxSurd
    THEN \* sqrt(a^2*kn / (b^2*kd)) = (a/(b*kd)) * sqrt(kn*kd)
         Norm(ISqrt(y[1] \div kn), ISqrt(y[2] \div kd) * kd, kn * kd)
    ELSE SqrtRounded(y[1], y[2])

SqrtRat[y \in Number] == SqrtParts[y, SurdPart(y[1]), SurdPart(y[2])]

\* np.sqrt: exact when the squarefree parts are small, else rounded
SqrtNum[x \in Number] ==
    IF IsNaN(x) \/ SignOf(x) < 0 THEN NaN
    ELSE IF ~IsFinite(x) THEN PosInf
    ELSE IF IsZero(x) THEN Zero
    ELSE SqrtRat[IF x[3] = 1 THEN x ELSE RoundNum[x]]

---------------------------------------------------------------------------
(* Angles and the numpy functions of angles.                               *)

\* pi as a rational, 355/113 = 3.1415929...
PiApprox == <<355, 113>>

\* the series are summed in fixed point with one more decimal than Scale
FixScale == 10 * Scale

\* x*y in fixed point
FixMul(x, y) == (x * y) \div FixScale

\* q*pi in fixed point, for a rational q = <<n, d, 1>> >= 0
FixRadians(q) == (q[1] * PiApprox[1] * FixScale) \div (q[2] * PiApprox[2])

\* sin x = x(1 - x^2/(2*3)(1 - x^2/(4*5)(1 - x^2/(6*7)( ... )))), 8 factors;
\* SinSeries(x2, j) is the j-th factor
RECURSIVE SinSeries(_, _)
SinSeries(x2, j) ==
    IF j > 8 THEN FixScale
    ELSE FixScale - FixMul(x2, SinSeries(x2, j + 1)) \div ((2 * j) * (2 * j + 1))

\* cos x = 1 - x^2/(1*2)(1 - x^2/(3*4)(1 - x^2/(5*6)( ... ))), 8 factors
RECURSIVE CosSeries(_, _)
CosSeries(x2, j) ==
    IF j > 8 THEN FixScale
    ELSE FixScale - FixMul(x2, CosSeries(x2, j + 1)) \div ((2 * j - 1) * (2 * j))

\* a fixed-point value rounded to the nearest multiple of 1/Scale
FixToNum(v) == Rat((v + 5) \div 10, Scale)

\* np.radians: degrees * pi/180
Radians(deg) == [kind |-> "pi", v |-> DivNum[deg, Num(180)]]

\* np.arctan of a finite number
ArcTan(x) == IF IsZero(x) THEN [kind |-> "pi", v |-> Zero]
                          ELSE [kind |-> "atan", v |-> x]

\* the hypotenuse sqrt(n^2 + d^2) of the triangle of arctan(n/d)
Hypot(b) == SqrtNum[Num(b[1] * b[1] + b[2] * b[2])]

\* np.sin
Sin(th) ==
    IF th.kind = "atan"
    THEN DivNum[Num(th.v[1]), Hypot(th.v)]
    ELSE LET x == FixRadians(th.v)
         IN  FixToNum(FixMul(x, SinSeries(FixMul(x, x), 1)))

\* np.cos
Cos(th) ==
    IF th.kind = "atan"
    THEN DivNum[Num(th.v[2]), Hypot(th.v)]
    ELSE LET x == FixRadians(th.v)
         IN  FixToNum(CosSeries(FixMul(x, x), 1))


\* arctan(n/d) in radians times AtanScale, for 0 < n/d <= 1/2, by the series
\* y - y^3/3 + y^5/5 - ...; pw is y^(2j+1) in fixed point
AtanScale == 10000000

RECURSIVE AtanSeries(_, _, _, _)
AtanSeries(n, d, j, pw) ==
    IF pw = 0 THEN 0
    ELSE pw \div (2 * j + 1)
         - AtanSeries(n, d, j + 1, MulDiv(MulDiv(pw, n, d), n, d))

RECURSIVE AtanFix(_, _)
\* arctan(n/d) for 0 < n <= d; above 1/2 by
\* arctan(y) = arctan(1/2) + arctan((2y - 1)/(2 + y))
AtanFix(n, d) ==
    IF 2 * n > d THEN AtanFix(1, 2) + AtanFix(2 * n - d, 2 * d + n)
    ELSE AtanSeries(n, d, 0, MulDiv(AtanScale, n, d))

\* radians to degrees in fixed point: rad * 180/pi
FixDegrees[rad \in Int] == MulDiv(rad, 180 * PiApprox[2], PiApprox[1])

\* np.degrees: radians * 180/pi
Degrees(th) ==
    IF th.kind = "pi" THEN MulNum[th.v, Num(180)]
    ELSE LET n   == th.v[1]
             d   == th.v[2]
             deg == FixDegrees[IF n <= d THEN AtanFix(n, d) ELSE AtanFix(d, n)]
         IN  IF n <= d THEN Rat(deg, AtanScale)
                       ELSE Rat(90 * AtanScale - deg, AtanScale)

\* np.round(x, decimals), half to even, for a finite rational x >= 0
NpRound(x, decimals) ==
    LET p  == IF decimals = 3 THEN 1000 ELSE 1
        qr == MulDivQR(x[1], p, x[2])
        up == 2 * qr[2] > x[2] \/ (2 * qr[2] = x[2] /\ qr[1] % 2 = 1)
    IN  Rat(IF up THEN qr[1] + 1 ELSE qr[1], p)

\* np.linspace(start, stop, num): num points, both ends included
Linspace(start, stop, num) ==
    LET step == DivNum[SubNum[stop, start], Num(num - 1)]
    IN  [k \in 1..num |-> IF k = num THEN stop
                          ELSE AddNum[start, MulNum[Num(k - 1), step]]]

\* np.arange(start, stop, step): start + k*step for all k with value < stop
Arange(start, stop, step) ==
    LET span == DivNum[SubNum[stop, start], step]
        len  == (span[1] + span[2] - 1) \div span[2]          \* ceil
    IN  [k \in 1..len |-> AddNum[start, MulNum[Num(k - 1), step]]]

\* np.append
NpAppend(a, b) == a \o b

RECURSIVE SortedSeq(_)
\* the elements of a finite set of rationals in ascending order
SortedSeq(S) ==
    IF S = {} THEN <<>>
    ELSE LET m == CHOOSE x \in S : \A y \in S : LeqNum(x, y)
         IN  <<m>> \o SortedSeq(S \ {m})

\* np.setdiff1d(a, b): the sorted, unique values of a that are not in b
SetDiff1d(a, b) ==
    SortedSeq({a[i] : i \in 1..Len(a)} \ {b[i] : i \in 1..Len(b)})

---------------------------------------------------------------------------
(* The optics evaluator, lines 40-76.  n_1 and n_2 are the module globals. *)

\* line 47 with the indices exchanged: beta = n_1/n_2
alphaAndBetaInverted(theta_i) ==
    LET alpha == Float[DivNum[SqrtNum[SubNum[Num(1),
                          SqNum[MulNum[DivNum[n_1, n_2], Sin(theta_i)]]]],
                       Cos(theta_i)]]
        beta  == Float[DivNum[n_1, n_2]]
    IN  <<alpha, beta>>

\* line 46 without the refraction: alpha = sqrt(1 - sin^2)/cos
alphaAndBetaUnrefracted(theta_i) ==
    LET alpha == Float[DivNum[SqrtNum[SubNum[Num(1), SqNum[Sin(theta_i)]]],
                       Cos(theta_i)]]
        beta  == Float[DivNum[n_2, n_1]]
    IN  <<alpha, beta>>

alphaAndBeta(theta_i) ==
    LET alpha == Float[DivNum[SqrtNum[SubNum[Num(1),
                          SqNum[MulNum[DivNum[n_1, n_2], Sin(theta_i)]]]],
                       Cos(theta_i)]]
        beta  == Float[DivNum[n_2, n_1]]
    IN  <<alpha, beta>>

reflectionAndTransmissionCoefficient(theta_i) ==
    LET body[alpha \in Number, beta \in Number] ==
            LET refl  == Float[DivNum[SubNum[alpha, beta],
                                      AddNum[alpha, beta]]]
                trans == Float[DivNum[Num(2), AddNum[alpha, beta]]]
            IN  <<refl, trans>>
    IN  body[alphaAndBeta(theta_i)[1], alphaAndBeta(theta_i)[2]]

\* line 74 without the square: reflectance = (alpha - beta)/(alpha + beta)
reflectanceUnsquared(theta_i) ==
    LET body[alpha \in Number, beta \in Number] ==
            LET refl  == Float[DivNum[SubNum[alpha, beta],
                                      AddNum[alpha, beta]]]
                trans == Float[MulNum[MulNum[alpha, beta],
                                 SqNum[DivNum[Num(2), AddNum[alpha, beta]]]]]
            IN  <<refl, trans>>
    IN  body[alphaAndBeta(theta_i)[1], alphaAndBeta(theta_i)[2]]

\* line 75 without the factor alpha*beta: transmittance = (2/(alpha + beta))^2
transmittanceUnweighted(theta_i) ==
    LET body[alpha \in Number, beta \in Number] ==
            LET refl  == Float[SqNum[DivNum[SubNum[alpha, beta],
                                            AddNum[alpha, beta]]]]
                trans == Float[SqNum[DivNum[Num(2), AddNum[alpha, beta]]]]
            IN  <<refl, trans>>
    IN  body[alphaAndBeta(theta_i)[1], alphaAndBeta(theta_i)[2]]

reflectanceAndTransmittance(theta_i) ==
    LET body[alpha \in Number, beta \in Number] ==
            LET refl  == Float[SqNum[DivNum[SubNum[alpha, beta],
                                            AddNum[alpha, beta]]]]
                trans == Float[MulNum[MulNum[alpha, beta],
                                 SqNum[DivNum[Num(2), AddNum[alpha, beta]]]]]
            IN  <<refl, trans>>
    IN  body[alphaAndBeta(theta_i)[1], alphaAndBeta(theta_i)[2]]

---------------------------------------------------------------------------
(* The script, lines 79-166: one action per statement; a comprehension     *)
(* takes one step per element of theta_range.                              *)

\* number of samples, np.linspace(0, 100, 100)
NumSamples == 100

\* a name that is not bound yet
Unset == <<>>

NoAngle == [kind |-> "none", v |-> Zero]

OutputFile == "fresnel_equation_plot_python.png"

\* an Axes object right after plt.subplots
NewAxes == [lines |-> <<>>, yticks |-> <<>>, axis |-> <<>>, legend |-> FALSE,
            grid |-> FALSE, annotate |-> <<>>, xticks |-> <<>>,
            xticklabels |-> <<>>, axhline |-> <<>>, axvline |-> <<>>]

\* the statements in program order
Statements == << "theta_range", "reflection_coefficient",
                 "transmission_coefficient", "reflectance", "transmittance",
                 "theta_brewster", "ticks", "subplots", "graph_1", "graph_2",
                 "for_i", "spines", "subplots_adjust", "show", "savefig" >>

StmtIndex(name) == CHOOSE i \in 1..Len(Statements) : Statements[i] = name

\* the statement after `name`, "done" after the last
NextStmt(name) ==
    IF StmtIndex(name) = Len(Statements) THEN "done"
    ELSE Statements[StmtIndex(name) + 1]

\* control passes from statement `name` to the next one
Advance(name) == /\ pc' = NextStmt(name)
                 /\ log' = Append(log, name)

Init ==
    /\ pc = "theta_range"
    /\ n_1 = Num(1)
    /\ n_2 = Rat(3, 2)
    /\ theta_range = Unset
    /\ reflection_coefficient = Unset
    /\ transmission_coefficient = Unset
    /\ reflectance = Unset
    /\ transmittance = Unset
    /\ theta_brewster = Unset
    /\ ticks_x = Unset
    /\ ticks_y = Unset
    /\ graph_1 = NewAxes
    /\ graph_2 = NewAxes
    /\ loop_i = 0
    /\ window = "none"
    /\ files = <<>>
    /\ log = <<>>
    /\ building = <<>>
    /\ theta = NoAngle
    /\ out_ab = Unset
    /\ out_rt = Unset
    /\ out_RT = Unset

evalVars == <<theta, out_ab, out_rt, out_RT>>
plotVars == <<graph_1, graph_2, loop_i, window, files>>
tickVars == <<theta_brewster, ticks_x, ticks_y>>
seqVars  == <<reflection_coefficient, transmission_coefficient,
              reflectance, transmittance>>

\* line 80 with np.linspace(0, 90, 100): the grid stops at the plotted range
ThetaRangeTo90 ==
    [k \in 1..NumSamples |->
        Radians(Linspace(Num(0), Num(90), NumSamples)[k])]

\* line 80 with np.linspace(0, 100, 101): one sample per degree
ThetaRange101 ==
    [k \in 1..(NumSamples + 1) |->
        Radians(Linspace(Num(0), Num(100), NumSamples + 1)[k])]

\* line 80: np.radians(np.linspace(0, 100, 100))
ThetaRangeValue ==
    [k \in 1..NumSamples |->
        Radians(Linspace(Num(0), Num(100), NumSamples)[k])]

\* line 80: theta_range = np.radians(np.linspace(0, 100, 100))
MakeThetaRange ==
    /\ pc = "theta_range"
    /\ theta_range' = ThetaRangeValue
    /\ Advance("theta_range")
    /\ UNCHANGED <<n_1, n_2, seqVars, tickVars, plotVars, building, evalVars>>

\* the element a comprehension computes for the angle th
Element(name, th) ==
    CASE name = "reflection_coefficient"
             -> reflectionAndTransmissionCoefficient(th)[1]
      [] name = "transmission_coefficient"
             -> reflectionAndTransmissionCoefficient(th)[2]
      [] name = "reflectance"   -> reflectanceAndTransmittance(th)[1]
      [] name = "transmittance" -> reflectanceAndTransmittance(th)[2]

\* the comprehension `name` has built `list`: the name is bound, and control
\* moves on, when the list is complete
Collect(name, list) ==
    LET last == Len(list) = Len(theta_range)
        bind(target, old) == IF last /\ name = target THEN list ELSE old
    IN  /\ building' = IF last THEN <<>> ELSE list
        /\ reflection_coefficient' =
               bind("reflection_coefficient", reflection_coefficient)
        /\ transmission_coefficient' =
               bind("transmission_coefficient", transmission_coefficient)
        /\ reflectance' = bind("reflectance", reflectance)
        /\ transmittance' = bind("transmittance", transmittance)
        /\ IF last THEN Advance(name) ELSE UNCHANGED <<pc, log>>

\* a comprehension that puts each new element in front of the list
ExtendInFront(name) ==
    <<Element(name, theta_range[Len(building) + 1])>> \o building

\* the comprehension's list after its next element: f(theta)[j] for the
\* next theta of theta_range, appended
Extend(name) ==
    Append(building, Element(name, theta_range[Len(building) + 1]))

\* lines 84-94: np.array([f(theta)[j] for theta in theta_range]), one
\* element per step
Comprehend(name) ==
    /\ pc = name
    /\ Collect(name, Extend(name))
    /\ UNCHANGED <<n_1, n_2, theta_range, tickVars, plotVars, evalVars>>

Sample ==
    \E name \in {"reflection_coefficient", "transmission_coefficient",
                 "reflectance", "transmittance"} : Comprehend(name)

\* line 97: theta_brewster = np.degrees(np.arctan(n_2/n_1))
Brewster ==
    /\ pc = "theta_brewster"
    /\ theta_brewster' = Degrees(ArcTan(DivNum[n_2, n_1]))
    /\ Advance("theta_brewster")
    /\ UNCHANGED <<n_1, n_2, theta_range, seqVars, ticks_x, ticks_y,
                   plotVars, building, evalVars>>

\* lines 100-101 without np.setdiff1d: the ticks at 50 and 60 stay
TicksXKeepAll(brewster) ==
    SortedSeq({t : t \in {Num(10 * j) : j \in 0..8}
                         \cup {NpRound(brewster, 3)}})

\* lines 100-101
TicksX(brewster) ==
    SetDiff1d(NpAppend(Arange(Num(0), Num(90), Num(10)),
                       <<NpRound(brewster, 3)>>),
              <<Num(50), Num(60)>>)

\* lines 100-102: ticks_x and ticks_y
Ticks ==
    /\ pc = "ticks"
    /\ ticks_x' = TicksX(theta_brewster)
    /\ ticks_y' = Arange(Rat(-2, 5), Num(1), Rat(1, 5))
    /\ Advance("ticks")
    /\ UNCHANGED <<n_1, n_2, theta_range, seqVars, theta_brewster,
                   plotVars, building, evalVars>>

\* line 107: figure, (graph_1, graph_2) = plt.subplots(1, 2, ...)
Subplots ==
    /\ pc = "subplots"
    /\ graph_1' = NewAxes
    /\ graph_2' = NewAxes
    /\ Advance("subplots")
    /\ UNCHANGED <<n_1, n_2, theta_range, seqVars, tickVars, loop_i, window,
                   files, building, evalVars>>

\* np.degrees(theta_range), the x data of every curve
DegreesOf(angles) == [k \in 1..Len(angles) |-> Degrees(angles[k])]

\* lines 108-119 and 125-136: two curves, the y ticks, the axis range, legend
Panel(ax, ys1, ys2, range) ==
    [ax EXCEPT !.lines = <<[x |-> DegreesOf(theta_range), y |-> ys1],
                           [x |-> DegreesOf(theta_range), y |-> ys2]>>,
               !.yticks = ticks_y,
               !.axis = range,
               !.legend = TRUE]

Graph1 ==
    /\ pc = "graph_1"
    /\ graph_1' = Panel(graph_1, reflection_coefficient,
                        transmission_coefficient,
                        <<Num(0), Num(90), Rat(-2, 5), Num(1)>>)
    /\ Advance("graph_1")
    /\ UNCHANGED <<n_1, n_2, theta_range, seqVars, tickVars, graph_2, loop_i,
                   window, files, building, evalVars>>

Graph2 ==
    /\ pc = "graph_2"
    /\ graph_2' = Panel(graph_2, reflectance, transmittance,
                        <<Num(0), Num(90), Rat(-1, 20), Rat(21, 20)>>)
    /\ Advance("graph_2")
    /\ UNCHANGED <<n_1, n_2, theta_range, seqVars, tickVars, graph_1, loop_i,
                   window, files, building, evalVars>>

\* lines 140-149, the body of the loop applied to one panel
Common(ax) ==
    [ax EXCEPT !.grid = TRUE,
               !.annotate = <<Degrees(ArcTan(DivNum[n_2, n_1])), Zero,
                              Num(33), Rat(1, 5)>>,
               !.xticks = ticks_x,
               !.xticklabels = ticks_x,
               !.axhline = <<Zero>>,
               !.axvline = <<Degrees(ArcTan(DivNum[n_2, n_1]))>>]

\* lines 139-149: for i in range(2): locals()[f"graph_{i+1}"]...
ForI ==
    /\ pc = "for_i"
    /\ graph_1' = IF loop_i = 0 THEN Common(graph_1) ELSE graph_1
    /\ graph_2' = IF loop_i = 1 THEN Common(graph_2) ELSE graph_2
    /\ loop_i' = loop_i + 1
    /\ IF loop_i + 1 = 2 THEN Advance("for_i") ELSE UNCHANGED <<pc, log>>
    /\ UNCHANGED <<n_1, n_2, theta_range, seqVars, tickVars, window, files,
                   building, evalVars>>

\* lines 152-154 and 157-162: spine widths and subplot spacing
Style ==
    /\ pc \in {"spines", "subplots_adjust"}
    /\ Advance(pc)
    /\ UNCHANGED <<n_1, n_2, theta_range, seqVars, tickVars, plotVars,
                   building, evalVars>>

\* line 164: plt.show() opens the window and blocks
ShowOpen ==
    /\ pc = "show"
    /\ window = "none"
    /\ window' = "open"
    /\ UNCHANGED <<pc, log, n_1, n_2, theta_range, seqVars, tickVars,
                   graph_1, graph_2, loop_i, files, building, evalVars>>

\* line 164: the window is closed and plt.show() returns
ShowReturn ==
    /\ pc = "show"
    /\ window = "open"
    /\ window' = "closed"
    /\ Advance("show")
    /\ UNCHANGED <<n_1, n_2, theta_range, seqVars, tickVars,
                   graph_1, graph_2, loop_i, files, building, evalVars>>

\* lines 164-166 swapped: the figure is saved before the window is shown
SaveFigBeforeShow ==
    /\ pc = "show"
    /\ window = "none"
    /\ files = <<>>
    /\ files' = Append(files, OutputFile)
    /\ log' = Append(log, "savefig")
    /\ UNCHANGED <<pc, n_1, n_2, theta_range, seqVars, tickVars,
                   graph_1, graph_2, loop_i, window, building, evalVars>>

\* line 166: figure.savefig("fresnel_equation_plot_python.png", ...)
SaveFig ==
    /\ pc = "savefig"
    /\ files' = Append(files, OutputFile)
    /\ Advance("savefig")
    /\ UNCHANGED <<n_1, n_2, theta_range, seqVars, tickVars,
                   graph_1, graph_2, loop_i, window, building, evalVars>>

IsStatement(name) == \E i \in 1..Len(Statements) : Statements[i] = name

\* an exception handler that falls back to saving whatever was drawn
RaiseThenSave ==
    /\ IsStatement(pc)
    /\ pc' = IF pc = "savefig" THEN "raised" ELSE "savefig"
    /\ log' = Append(log, "raise")
    /\ UNCHANGED <<n_1, n_2, theta_range, seqVars, tickVars, plotVars,
                   building, evalVars>>

\* the statement at pc raises: nothing catches it (there is no try in the
\* script), the interpreter exits.  savefig may have created the file
\* before it failed.
Raise ==
    /\ IsStatement(pc)
    /\ pc' = "raised"
    /\ log' = Append(log, "raise")
    /\ \/ UNCHANGED files
       \/ pc = "savefig" /\ files' = Append(files, OutputFile)
    /\ UNCHANGED <<n_1, n_2, theta_range, seqVars, tickVars, graph_1,
                   graph_2, loop_i, window, building, evalVars>>

Next ==
    \/ MakeThetaRange
    \/ Sample
    \/ Brewster
    \/ Ticks
    \/ Subplots
    \/ Graph1
    \/ Graph2
    \/ ForI
    \/ Style
    \/ ShowOpen
    \/ ShowReturn
    \/ SaveFig
    \/ Raise

Spec == Init /\ [][Next]_vars


---------------------------------------------------------------------------
(* The evaluator on its own: the three functions applied, in any order, to *)
(* one angle under one pair of refractive indices.                         *)

Indices == {Rat(i, 2) : i \in 1..MaxIndex}

Angles == {Radians(Num(10 * j)) : j \in 0..MaxAngle}

InitEval ==
    /\ pc = "call"
    /\ n_1 \in Indices
    /\ n_2 \in Indices
    /\ theta \in Angles \cup {ArcTan(DivNum[n_2, n_1])}
    /\ out_ab = Unset
    /\ out_rt = Unset
    /\ out_RT = Unset
    /\ theta_range = Unset
    /\ reflection_coefficient = Unset
    /\ transmission_coefficient = Unset
    /\ reflectance = Unset
    /\ transmittance = Unset
    /\ theta_brewster = Unset
    /\ ticks_x = Unset
    /\ ticks_y = Unset
    /\ graph_1 = NewAxes
    /\ graph_2 = NewAxes
    /\ loop_i = 0
    /\ window = "none"
    /\ files = <<>>
    /\ log = <<>>
    /\ building = <<>>

scriptVars == <<pc, n_1, n_2, theta_range, seqVars, tickVars, plotVars,
                log, building>>

CallAlphaAndBeta ==
    /\ pc = "call"
    /\ out_ab = Unset
    /\ out_ab' = alphaAndBeta(theta)
    /\ UNCHANGED <<scriptVars, theta, out_rt, out_RT>>

CallReflectionAndTransmissionCoefficient ==
    /\ pc = "call"
    /\ out_rt = Unset
    /\ out_rt' = reflectionAndTransmissionCoefficient(theta)
    /\ UNCHANGED <<scriptVars, theta, out_ab, out_RT>>

CallReflectanceAndTransmittance ==
    /\ pc = "call"
    /\ out_RT = Unset
    /\ out_RT' = reflectanceAndTransmittance(theta)
    /\ UNCHANGED <<scriptVars, theta, out_ab, out_rt>>

NextEval ==
    \/ CallAlphaAndBeta
    \/ CallReflectionAndTransmissionCoefficient
    \/ CallReflectanceAndTransmittance

SpecEval == InitEval /\ [][NextEval]_vars

\* the script's run, or the evaluator called on its own
SpecAll == (Init \/ InitEval) /\ [][Next \/ NextEval]_vars


---------------------------------------------------------------------------
(* Properties.                                                             *)

\* 0 < theta < pi/2
InFirstQuadrant(th) ==
    IF th.kind = "atan" THEN SignOf(th.v) > 0
    ELSE LessNum(Zero, th.v) /\ LessNum(th.v, Rat(1, 2))

\* the script's refractive indices, lines 36-37
ScriptIndices == n_1 = Num(1) /\ n_2 = Rat(3, 2)

AllCalled == out_ab # Unset /\ out_rt # Unset /\ out_RT # Unset

NormalIncidence == pc = "call" /\ theta = Radians(Num(0)) /\ ScriptIndices

\* C1 as stated: at theta_i = 0 with n1 = 1.0 and n2 = 1.5 the evaluator
\* returns alpha = n2/n1 = 1.5, beta = 1.5, r = 0, t = 2/3, R = 0 and T = 1.
C1_AsStated ==
    NormalIncidence =>
        /\ out_ab # Unset => out_ab = <<Rat(3, 2), Rat(3, 2)>>
        /\ out_rt # Unset => out_rt = <<Zero, Rat(2, 3)>>
        /\ out_RT # Unset => out_RT = <<Zero, Num(1)>>

\* C1 amended: at theta_i = 0 with n1 = 1.0 and n2 = 1.5 the evaluator
\* returns alpha = 1, beta = 1.5, r = -0.2, t = 0.8, R = 0.04 and T = 0.96.
C1_NormalIncidence ==
    NormalIncidence =>
        /\ out_ab # Unset => out_ab = <<Num(1), Rat(3, 2)>>
        /\ out_rt # Unset => out_rt = <<Rat(-1, 5), Rat(4, 5)>>
        /\ out_RT # Unset => out_RT = <<Rat(1, 25), Rat(24, 25)>>

C1_Witness == NormalIncidence /\ AllCalled

\* theta_range[i] is below 90 degrees
Below90(i) == LessNum(Degrees(theta_range[i]), Num(90))

\* C2: for every theta_i in (0, pi/2) the reflectance returned by
\* reflectanceAndTransmittance is the square of the reflection coefficient
\* returned by reflectionAndTransmissionCoefficient, and so reflectance[i] =
\* reflection_coefficient[i]^2 at every sample below 90 degrees.  Both are
\* numbers whenever n1 <= n2, as in the script; only past the critical
\* angle of n1 > n2 are both nan.
C2_ReflectanceIsSquare ==
    /\ (pc = "call" /\ InFirstQuadrant(theta)
            /\ out_rt # Unset /\ out_RT # Unset)
       => /\ ~IsNaN(out_rt[1]) =>
                 /\ IsFinite(out_rt[1])
                 /\ out_RT[1] = SqNum[out_rt[1]]
          /\ IsNaN(out_rt[1]) => IsNaN(out_RT[1]) /\ LessNum(n_2, n_1)
    /\ reflectance # Unset
       => \A i \in 1..Len(theta_range) :
             Below90(i) =>
                 /\ reflectance[i] = SqNum[reflection_coefficient[i]]
                 /\ IsFinite(reflectance[i])

C2_Witness ==
    \/ /\ pc = "call" /\ InFirstQuadrant(theta) /\ AllCalled
       /\ IsFinite(out_RT[1]) /\ ~IsZero(out_RT[1])
       /\ ~ScriptIndices
    \/ /\ pc = "done"
       /\ Below90(90) /\ ~IsZero(reflectance[90])

AtBrewster == pc = "call" /\ theta = ArcTan(DivNum[n_2, n_1])

\* C3: at Brewster's angle theta_i = arctan(n2/n1), for any positive n1 and
\* n2, alpha equals beta, so the reflection coefficient and the reflectance
\* are 0.
C3_Brewster ==
    AtBrewster =>
        /\ out_ab # Unset => out_ab[1] = out_ab[2] /\ IsFinite(out_ab[1])
        /\ out_rt # Unset => out_rt[1] = Zero
        /\ out_RT # Unset => out_RT[1] = Zero

C3_Witness == AtBrewster /\ AllCalled /\ ScriptIndices

\* alpha and beta are real and alpha + beta is not zero
RealValued(ab) ==
    IsFinite(ab[1]) /\ IsFinite(ab[2]) /\ ~IsZero(AddNum[ab[1], ab[2]])

\* C4: wherever alpha and beta are real and alpha + beta is not zero, the
\* reflectance and the transmittance sum to 1.
C4_EnergyConservation ==
    (pc = "call" /\ out_ab # Unset /\ out_RT # Unset /\ RealValued(out_ab))
        => AddNum[out_RT[1], out_RT[2]] = Num(1)

C4_Witness ==
    /\ pc = "call" /\ AllCalled /\ RealValued(out_ab)
    /\ SignOf(out_ab[1]) < 0                  \* beyond 90 degrees
    /\ ~IsZero(out_RT[1])

\* the grid in degrees
GridDegrees(i) == Degrees(theta_range[i])

\* C5: theta_range has exactly 100 points, from 0 degrees to 100 degrees
\* inclusive, evenly spaced and strictly ascending.
C5_Grid ==
    theta_range # Unset =>
        /\ Len(theta_range) = 100
        /\ GridDegrees(1) = Num(0)
        /\ GridDegrees(Len(theta_range)) = Num(100)
        /\ \A i \in 1..(Len(theta_range) - 1) :
              /\ LessNum(GridDegrees(i), GridDegrees(i + 1))
              /\ SubNum[GridDegrees(i + 1), GridDegrees(i)]
                     = SubNum[GridDegrees(2), GridDegrees(1)]

C5_Witness == theta_range # Unset /\ pc = "done"

\* what the sampler owes at index i of each sequence
Owed(name, i) ==
    CASE name = "reflection_coefficient"
             -> reflectionAndTransmissionCoefficient(theta_range[i])[1]
      [] name = "transmission_coefficient"
             -> reflectionAndTransmissionCoefficient(theta_range[i])[2]
      [] name = "reflectance"
             -> reflectanceAndTransmittance(theta_range[i])[1]
      [] name = "transmittance"
             -> reflectanceAndTransmittance(theta_range[i])[2]

SequenceNames ==
    {"reflection_coefficient", "transmission_coefficient",
     "reflectance", "transmittance"}

Aligned(name, seq) ==
    /\ Len(seq) = Len(theta_range)
    /\ Len(seq) = 100
    /\ \A i \in 1..Len(seq) : seq[i] = Owed(name, i)

\* C6: the four sequences have the length of theta_range, N = 100, and the
\* i-th element of each is the evaluator's result for theta_range[i]:
\* every element as it is added, and all of them once sampling is over.
C6_Aligned ==
    /\ (pc \in SequenceNames /\ building # <<>>) =>
           building[Len(building)] = Owed(pc, Len(building))
    /\ \A name \in SequenceNames :
           LET seq == CASE name = "reflection_coefficient"
                               -> reflection_coefficient
                        [] name = "transmission_coefficient"
                               -> transmission_coefficient
                        [] name = "reflectance" -> reflectance
                        [] name = "transmittance" -> transmittance
           IN  /\ seq # Unset => Len(seq) = Len(theta_range)
               /\ (pc = "done" \/ (pc = NextStmt(name) /\ building = <<>>))
                      => Aligned(name, seq)

C6_Witness ==
    /\ pc = "done"
    /\ reflection_coefficient[2] # reflection_coefficient[60]
    /\ transmittance[100] # transmittance[1]

Rendering == {"graph_1", "graph_2", "for_i", "spines", "subplots_adjust",
              "show", "savefig", "done"}

Sampled ==
    \A seq \in {reflection_coefficient, transmission_coefficient,
                reflectance, transmittance} :
        seq # Unset /\ Len(seq) = 100

\* the statements completed, without a final "raise"
Completed ==
    IF log # <<>> /\ log[Len(log)] = "raise"
    THEN SubSeq(log, 1, Len(log) - 1) ELSE log

\* C7: the four sequences are complete before rendering starts, the window
\* is shown before the image is saved, and the one write of the file comes
\* after plt.show() has returned, as the last action of the run.
C7_StageOrder ==
    /\ Completed = SubSeq(Statements, 1, Len(Completed))
    /\ (pc \in Rendering \/ graph_1 # NewAxes \/ graph_2 # NewAxes
            \/ window # "none")
       => Sampled
    /\ window # "closed" => files = <<>>
    /\ files # <<>> =>
          /\ files = <<OutputFile>>
          /\ pc \in {"done", "raised"}
          /\ Completed = SubSeq(Statements, 1, Len(Statements) - 1)
             \/ log = Statements

C7_Witness == pc = "done" /\ files = <<OutputFile>> /\ window = "closed"

\* the statement that raised
RaisedAt == Statements[Len(log)]

\* C8: an exception is fatal: the run ends at the statement that raised,
\* with no retry and no fallback, and the output file is not written in
\* a run that fails before savefig.
C8_RaiseIsFatal ==
    /\ [](/\ \A i \in 1..Len(log) :
                 log[i] = "raise" => i = Len(log) /\ pc = "raised"
          /\ pc = "raised" =>
                 /\ log # <<>> /\ log[Len(log)] = "raise"
                 /\ RaisedAt # "savefig" => files = <<>>)
    /\ [][pc # "raised"]_vars

C8_Witness ==
    /\ pc = "raised" /\ RaisedAt = "for_i" /\ loop_i = 1 /\ files = <<>>

ExpectedTicks ==
    << Num(0), Num(10), Num(20), Num(30), Num(40), Rat(5631, 100),
       Num(70), Num(80) >>

TicksIn(ax) ==
    /\ ax.xticks = ExpectedTicks
    /\ \A i \in 1..Len(ax.xticks) :
          /\ LeqNum(ax.axis[1], ax.xticks[i])
          /\ LeqNum(ax.xticks[i], ax.axis[2])
    /\ ax.axis[1] = Num(0)
    /\ ax.axis[2] = Num(90)

\* C9: both panels get the x ticks 0, 10, 20, 30, 40, 56.31, 70, 80: the
\* multiples of 10 from 0 to 80 and Brewster's angle rounded to 3 decimals,
\* without 50 and 60, ascending, without duplicates, all inside [0, 90].
C9_Ticks ==
    /\ theta_brewster # Unset => NpRound(theta_brewster, 3) = Rat(5631, 100)
    /\ ticks_x # Unset =>
          /\ ticks_x = ExpectedTicks
          /\ \A i \in 1..(Len(ticks_x) - 1) :
                LessNum(ticks_x[i], ticks_x[i + 1])
    /\ graph_1.xticks # <<>> => TicksIn(graph_1)
    /\ graph_2.xticks # <<>> => TicksIn(graph_2)
    /\ (pc \in {"spines", "subplots_adjust", "show", "savefig", "done"})
       => graph_1.xticks = ticks_x /\ graph_2.xticks = ticks_x

C9_Witness ==
    pc = "done" /\ graph_1.xticks # <<>> /\ graph_2.xticks # <<>>

\* line 46: the argument of np.sqrt
Radicand(theta_i) ==
    SubNum[Num(1), SqNum[MulNum[DivNum[n_1, n_2], Sin(theta_i)]]]

FiniteSeq(seq) == \A i \in 1..Len(seq) : IsFinite(seq[i])

\* C10: with n1 = 1.0 and n2 = 1.5 no sample of the grid is a degenerate
\* input: none is 90 degrees, cos(theta_i) is never 0, the radicand is
\* never negative, alpha + beta is never 0, and every value of the four
\* sequences is a finite real.
C10_NoDegenerateSample ==
    /\ (pc = "reflection_coefficient" /\ building = <<>>) =>
          \A i \in 1..Len(theta_range) :
              /\ GridDegrees(i) # Num(90)
              /\ ~IsZero(Cos(theta_range[i]))
              /\ SignOf(Radicand(theta_range[i])) >= 0
              /\ RealValued(alphaAndBeta(theta_range[i]))
    /\ FiniteSeq(building)
    /\ FiniteSeq(reflection_coefficient)
    /\ FiniteSeq(transmission_coefficient)
    /\ FiniteSeq(reflectance)
    /\ FiniteSeq(transmittance)

C10_Witness ==
    /\ pc = "done"
    /\ LessNum(Num(90), GridDegrees(91))          \* the tail beyond 90
    /\ IsFinite(transmittance[91]) /\ SignOf(transmittance[91]) < 0

===========================================================================
